---- MODULE Spec2Model ----
(***************************************************************************)
(* The session module of the GoBarber mobile client, src/src/hooks/auth.tsx,*)
(* together with the screens that drive it.                                *)
(*                                                                         *)
(* The JavaScript thread runs one continuation at a time: cur is the       *)
(* continuation on the stack, and while it is not Idle no other action is  *)
(* enabled.  The suspension points of the code (await api.post and the     *)
(* awaits on AsyncStorage) are where a call waits in net or in ops.        *)
(* AsyncStorage serves its operations one at a time in the order they were *)
(* issued and delivers the callbacks in that order: ops is that queue.     *)
(***************************************************************************)
EXTENDS Integers, Sequences, FiniteSets, TLC

VARIABLES
    data,      \* useState<AuthState>: a record with the keys that are defined
    loading,   \* useState(true)
    headers,   \* api.defaults.headers
    storage,   \* the AsyncStorage entries, key -> string
    load,      \* loadStorageData: "multiGet" while it runs, then how it ended
    net,       \* HTTP requests awaiting their response
    ops,       \* AsyncStorage operations issued and not yet called back
    cur        \* the continuation the JavaScript thread is running

vars == <<data, loading, headers, storage, load, net, ops, cur>>

----------------------------------------------------------------------------
(* Bounds and the small sets the inputs are drawn from *)

MaxCalls == 2

Tokens == {"t1", "t2"}

MkUser(id, name) ==
    [id |-> id, name |-> name, email |-> "a@b.com", avatarURL |-> "http://x/a.png"]

Users == {MkUser("u1", "Ana"), MkUser("u1", "Bia"), MkUser("u2", "Ana")}

Credentials == {[email |-> "a@b.com", password |-> "secret"]}

KeyToken == "@GoBarber:token"
KeyUser == "@GoBarber:user"

----------------------------------------------------------------------------
(* Values *)

\* "{} as AuthState", and an object without keys in general
Empty == [k \in {} |-> ""]

\* the object obj cut down to the keys in keys (a key whose value is
\* undefined is a key that is not there)
Restrict(obj, keys) == [k \in (DOMAIN obj) \cap keys |-> obj[k]]

Has(obj, key) == key \in DOMAIN obj

\* a serialisation that leaves the name out
JSONstringifyNoName(u) ==
    "{\"id\":\"" \o u.id \o "\",\"email\":\""
        \o u.email \o "\",\"avatarURL\":\"" \o u.avatarURL \o "\"}"

\* JSON.stringify of a User: the text of its four properties
JSONstringify(u) ==
    "{\"id\":\"" \o u.id \o "\",\"name\":\"" \o u.name \o "\",\"email\":\""
        \o u.email \o "\",\"avatarURL\":\"" \o u.avatarURL \o "\"}"

\* JSON.parse accepts the texts JSON.stringify produces and throws a
\* SyntaxError on the others
JSONparses(s) == \E u \in Users : JSONstringify(u) = s

JSONparse(s) == CHOOSE u \in Users : JSONstringify(u) = s

\* a stored text that is no JSON
Malformed == "{oops"

\* the template literal "Bearer ${token}"
Bearer(token) == "Bearer " \o token

\* JavaScript truthiness of a multiGet result: null and "" are falsy
Truthy(got, key) == Has(got, key) /\ got[key] # ""

\* loadStorageData, line 81: token[1] && user[1]
BothStored(got) == Truthy(got, KeyToken) /\ Truthy(got, KeyUser)

\* the credential loadStorageData puts in memory for a multiGet result, lines
\* 81-88; nothing when the condition fails or JSON.parse throws
Restored(got) ==
    IF BothStored(got) /\ JSONparses(got[KeyUser])
    THEN [token |-> got[KeyToken], user |-> JSONparse(got[KeyUser])]
    ELSE Empty

Remove(seq, i) == SubSeq(seq, 1, i - 1) \o SubSeq(seq, i + 1, Len(seq))

Idle == [op |-> "none", pc |-> "idle"]

\* the calls of the facade that are still in flight
InFlight == Len(net) + Len(SelectSeq(ops, LAMBDA o : o.op # "multiGet"))

\* what the storage may hold when the process starts
InitStorages ==
    { Restrict([t \in {KeyToken} |-> tok] @@ [u \in {KeyUser} |-> usr], keys) :
        tok \in {"t1"},
        usr \in {JSONstringify(MkUser("u1", "Ana")), Malformed},
        keys \in SUBSET {KeyToken, KeyUser} }

\* a router that does not wait for the restore
RoutesIgnoringLoading ==
    IF Has(data, "user") THEN "AppRoutes" ELSE "AuthRoutes"

\* Routes: the navigator that is rendered
Routes ==
    IF loading THEN "ActivityIndicator"
    ELSE IF Has(data, "user") THEN "AppRoutes" ELSE "AuthRoutes"

----------------------------------------------------------------------------
(* Construction: the first render and its effect, which starts          *)
(* loadStorageData up to its await                                      *)

MultiGet == [op |-> "multiGet", st |-> "pending"]

Init ==
    /\ data = Empty
    /\ loading = TRUE
    /\ headers = Empty
    /\ storage \in InitStorages
    /\ load = "multiGet"
    /\ net = << >>
    /\ ops = << MultiGet >>
    /\ cur = Idle

----------------------------------------------------------------------------
(* The facade's operations, each up to its first await.  They are called by *)
(* the screens, and Routes mounts a screen only once loading is false; the  *)
(* context hands all three to every screen, whatever the session is.        *)

ScreensMounted == Routes # "ActivityIndicator"

\* a signIn that turns the loading flag on while it waits
SignInShowsLoading(cred) ==
    /\ cur = Idle
    /\ ScreensMounted
    /\ InFlight < MaxCalls
    /\ net' = Append(net, [req |-> "sessions", body |-> cred])
    /\ loading' = TRUE
    /\ UNCHANGED <<data, headers, storage, load, ops, cur>>

\* signIn, lines 99-100: api.post('sessions', {email, password})
SignIn(cred) ==
    /\ cur = Idle
    /\ ScreensMounted
    /\ InFlight < MaxCalls
    /\ net' = Append(net, [req |-> "sessions", body |-> cred])
    /\ UNCHANGED <<data, loading, headers, storage, load, ops, cur>>

\* signOut, lines 127-131: AsyncStorage.multiRemove issued
SignOut ==
    /\ cur = Idle
    /\ ScreensMounted
    /\ InFlight < MaxCalls
    /\ ops' = Append(ops, [op |-> "multiRemove", st |-> "pending"])
    /\ UNCHANGED <<data, loading, headers, storage, load, net, cur>>

\* the body of an updateUser callback whose closure captured closure
\* (the part of data it depends on: data.token), lines 145-155
UpdateUserBody(closure, user) ==
    /\ data' = closure @@ [user |-> user]
    /\ ops' = Append(ops, [op |-> "setItem", st |-> "pending",
                           value |-> JSONstringify(user)])

\* updateUser as the current render exposes it
UpdateUser(user) ==
    /\ cur = Idle
    /\ ScreensMounted
    /\ InFlight < MaxCalls
    /\ UpdateUserBody(Restrict(data, {"token"}), user)
    /\ UNCHANGED <<loading, headers, storage, load, net, cur>>

\* Profile.handleSignUp and handleUpdateAvatar up to their await: the request
\* is sent by the Profile screen, which AppRoutes mounts, and its continuation
\* holds the updateUser of the render that created the handler
ProfileSubmit ==
    /\ cur = Idle
    /\ Routes = "AppRoutes"
    /\ InFlight < MaxCalls
    /\ net' = Append(net, [req |-> "profile", closure |-> Restrict(data, {"token"})])
    /\ UNCHANGED <<data, loading, headers, storage, load, ops, cur>>

----------------------------------------------------------------------------
(* The remote API answers *)

\* a signIn that sets the header before it awaits the write
SignInPersistAfterHeader(token, user) ==
    /\ ops' = Append(ops, [op |-> "multiSet", st |-> "pending", token |-> token,
                           user |-> user, value |-> JSONstringify(user)])
    /\ headers' = [authorization |-> Bearer(token)]
    /\ UNCHANGED data

\* signIn, lines 100-114: the response is destructured and multiSet is issued
SignInPersist(token, user) ==
    /\ ops' = Append(ops, [op |-> "multiSet", st |-> "pending", token |-> token,
                           user |-> user, value |-> JSONstringify(user)])
    /\ UNCHANGED <<data, headers>>

SessionsResponds(i, token, user) ==
    /\ cur = Idle
    /\ i \in DOMAIN net
    /\ net[i].req = "sessions"
    /\ net' = Remove(net, i)
    /\ SignInPersist(token, user)
    /\ UNCHANGED <<loading, storage, load, cur>>

\* a signIn that ends the session when the login fails
SignInPostFailsSignsOut ==
    /\ cur' = [op |-> "signIn", pc |-> "rejected", at |-> "post"]
    /\ data' = Empty
    /\ UNCHANGED <<loading, headers, storage, load, ops>>

\* signIn, line 100: api.post rejects and the rejection leaves signIn
SignInPostFails ==
    /\ cur' = [op |-> "signIn", pc |-> "rejected", at |-> "post"]
    /\ UNCHANGED <<data, loading, headers, storage, load, ops>>

SessionsRejects(i) ==
    /\ cur = Idle
    /\ i \in DOMAIN net
    /\ net[i].req = "sessions"
    /\ net' = Remove(net, i)
    /\ SignInPostFails

\* Profile, lines 128-133 and 201-203: updateUser(response.data)
ProfileResponds(i, user) ==
    /\ cur = Idle
    /\ i \in DOMAIN net
    /\ net[i].req = "profile"
    /\ net' = Remove(net, i)
    /\ UpdateUserBody(net[i].closure, user)
    /\ UNCHANGED <<loading, headers, storage, load, cur>>

\* Profile, lines 141-166: the catch shows an alert
ProfileRejects(i) ==
    /\ cur = Idle
    /\ i \in DOMAIN net
    /\ net[i].req = "profile"
    /\ net' = Remove(net, i)
    /\ UNCHANGED <<data, loading, headers, storage, load, ops, cur>>

----------------------------------------------------------------------------
(* AsyncStorage: the native side serves the oldest operation not yet served. *)
(* It runs beside the JavaScript thread; its steps commute with those of a  *)
(* running continuation, which only appends to ops, so they are taken when  *)
(* the thread is idle.                                                      *)

IsPending(i) == i \in DOMAIN ops /\ ops[i].st = "pending"

Oldest(i) == IsPending(i) /\ \A j \in 1..(i - 1) : ~IsPending(j)

\* a multiRemove that is given the token key only
ServedRemovesTokenOnly(o) ==
    CASE o.op = "multiGet" -> storage
      [] o.op = "multiSet" ->
            (KeyToken :> o.token) @@ (KeyUser :> o.value) @@ storage
      [] o.op = "multiRemove" ->
            Restrict(storage, (DOMAIN storage) \ {KeyToken})
      [] o.op = "setItem" -> (KeyUser :> o.value) @@ storage

\* a setItem that replaces the entries by the user entry
ServedSetItemAlone(o) ==
    CASE o.op = "multiGet" -> storage
      [] o.op = "multiSet" ->
            (KeyToken :> o.token) @@ (KeyUser :> o.value) @@ storage
      [] o.op = "multiRemove" ->
            Restrict(storage, (DOMAIN storage) \ {KeyToken, KeyUser})
      [] o.op = "setItem" -> (KeyUser :> o.value)

\* what the entries are once operation o has been served
Served(o) ==
    CASE o.op = "multiGet" -> storage
      [] o.op = "multiSet" ->
            (KeyToken :> o.token) @@ (KeyUser :> o.value) @@ storage
      [] o.op = "multiRemove" ->
            Restrict(storage, (DOMAIN storage) \ {KeyToken, KeyUser})
      [] o.op = "setItem" -> (KeyUser :> o.value) @@ storage

\* the operation as the callback will see it
Answered(o) ==
    IF o.op = "multiGet" THEN [op |-> "multiGet", st |-> "ok", got |-> storage]
    ELSE [o EXCEPT !.st = "ok"]

StorageServes(i) ==
    /\ cur = Idle
    /\ Oldest(i)
    /\ storage' = Served(ops[i])
    /\ ops' = [ops EXCEPT ![i] = Answered(ops[i])]
    /\ UNCHANGED <<data, loading, headers, load, net, cur>>

StorageFails(i) ==
    /\ cur = Idle
    /\ Oldest(i)
    /\ ops' = [ops EXCEPT ![i].st = "error"]
    /\ UNCHANGED <<data, loading, headers, storage, load, net, cur>>

----------------------------------------------------------------------------
(* The callbacks: the awaiting function resumes *)

Called == Len(ops) > 0 /\ ops[1].st # "pending"

\* a signIn that goes on whether the write succeeded or not
SignInResumesIgnoringError ==
    /\ cur = Idle
    /\ Called
    /\ ops[1].op = "multiSet"
    /\ ops' = Tail(ops)
    /\ cur' = [op |-> "signIn", pc |-> "setHeader",
               token |-> ops[1].token, user |-> ops[1].user]
    /\ UNCHANGED <<data, loading, headers, storage, load, net>>

\* after "await AsyncStorage.multiSet", lines 111-114
SignInResumes ==
    /\ cur = Idle
    /\ Called
    /\ ops[1].op = "multiSet"
    /\ ops' = Tail(ops)
    /\ cur' = IF ops[1].st = "ok"
              THEN [op |-> "signIn", pc |-> "setHeader",
                    token |-> ops[1].token, user |-> ops[1].user]
              ELSE [op |-> "signIn", pc |-> "rejected", at |-> "multiSet"]
    /\ UNCHANGED <<data, loading, headers, storage, load, net>>

\* a header without the scheme
SignInSetHeaderNoScheme ==
    /\ cur.op = "signIn"
    /\ cur.pc = "setHeader"
    /\ headers' = [authorization |-> cur.token]
    /\ cur' = [cur EXCEPT !.pc = "setData"]
    /\ UNCHANGED <<data, loading, storage, load, net, ops>>

\* signIn, line 119
SignInSetHeader ==
    /\ cur.op = "signIn"
    /\ cur.pc = "setHeader"
    /\ headers' = [authorization |-> Bearer(cur.token)]
    /\ cur' = [cur EXCEPT !.pc = "setData"]
    /\ UNCHANGED <<data, loading, storage, load, net, ops>>

\* signIn, line 124, after which the promise resolves
SignInSetData ==
    /\ cur.op = "signIn"
    /\ cur.pc = "setData"
    /\ data' = [token |-> cur.token, user |-> cur.user]
    /\ cur' = [cur EXCEPT !.pc = "resolved"]
    /\ UNCHANGED <<loading, headers, storage, load, net, ops>>

\* a signOut that clears the credential whether the removal succeeded or not
SignOutResumesIgnoringError ==
    /\ cur = Idle
    /\ Called
    /\ ops[1].op = "multiRemove"
    /\ ops' = Tail(ops)
    /\ cur' = [op |-> "signOut", pc |-> "setData"]
    /\ UNCHANGED <<data, loading, headers, storage, load, net>>

\* after "await AsyncStorage.multiRemove", line 131
SignOutResumes ==
    /\ cur = Idle
    /\ Called
    /\ ops[1].op = "multiRemove"
    /\ ops' = Tail(ops)
    /\ cur' = IF ops[1].st = "ok"
              THEN [op |-> "signOut", pc |-> "setData"]
              ELSE [op |-> "signOut", pc |-> "rejected", at |-> "multiRemove"]
    /\ UNCHANGED <<data, loading, headers, storage, load, net>>

\* a signOut that also deletes the authorization header
SignOutSetDataClearsHeader ==
    /\ cur.op = "signOut"
    /\ cur.pc = "setData"
    /\ data' = Empty
    /\ headers' = Empty
    /\ cur' = [cur EXCEPT !.pc = "resolved"]
    /\ UNCHANGED <<loading, storage, load, net, ops>>

\* a signOut that forgets the token only
SignOutSetDataKeepsUser ==
    /\ cur.op = "signOut"
    /\ cur.pc = "setData"
    /\ data' = Restrict(data, {"user"})
    /\ cur' = [cur EXCEPT !.pc = "resolved"]
    /\ UNCHANGED <<loading, headers, storage, load, net, ops>>

\* signOut, line 136, after which the promise resolves
SignOutSetData ==
    /\ cur.op = "signOut"
    /\ cur.pc = "setData"
    /\ data' = Empty
    /\ cur' = [cur EXCEPT !.pc = "resolved"]
    /\ UNCHANGED <<loading, headers, storage, load, net, ops>>

\* after "await AsyncStorage.setItem", line 155: updateUser has nothing left
\* to do and its promise settles
UpdateUserResumes ==
    /\ cur = Idle
    /\ Called
    /\ ops[1].op = "setItem"
    /\ ops' = Tail(ops)
    /\ cur' = IF ops[1].st = "ok"
              THEN [op |-> "updateUser", pc |-> "resolved"]
              ELSE [op |-> "updateUser", pc |-> "rejected", at |-> "setItem"]
    /\ UNCHANGED <<data, loading, headers, storage, load, net>>

----------------------------------------------------------------------------
(* loadStorageData, lines 71-94, from its await on *)

\* after "await AsyncStorage.multiGet", lines 75-78
LoadResumes ==
    /\ cur = Idle
    /\ Called
    /\ ops[1].op = "multiGet"
    /\ ops' = Tail(ops)
    /\ cur' = IF ops[1].st = "ok"
              THEN [op |-> "loadStorageData", pc |-> "check", got |-> ops[1].got]
              ELSE [op |-> "loadStorageData", pc |-> "rejected", at |-> "multiGet"]
    /\ UNCHANGED <<data, loading, headers, storage, load, net>>

\* a restore that sets the header as soon as a token is stored
LoadSetHeaderBeforeCheck ==
    /\ cur.op = "loadStorageData"
    /\ cur.pc = "check"
    /\ headers' = IF Truthy(cur.got, KeyToken)
                  THEN [authorization |-> Bearer(cur.got[KeyToken])]
                  ELSE headers
    /\ cur' = [cur EXCEPT !.pc = IF BothStored(cur.got) THEN "setData" ELSE "setLoading"]
    /\ UNCHANGED <<data, loading, storage, load, net, ops>>

\* lines 81-85: the condition, and the header when it holds
LoadSetHeader ==
    /\ cur.op = "loadStorageData"
    /\ cur.pc = "check"
    /\ IF BothStored(cur.got)
       THEN /\ headers' = [authorization |-> Bearer(cur.got[KeyToken])]
            /\ cur' = [cur EXCEPT !.pc = "setData"]
       ELSE /\ headers' = headers
            /\ cur' = [cur EXCEPT !.pc = "setLoading"]
    /\ UNCHANGED <<data, loading, storage, load, net, ops>>

\* line 87: JSON.parse throws out of loadStorageData on a text that is no JSON
LoadSetData ==
    /\ cur.op = "loadStorageData"
    /\ cur.pc = "setData"
    /\ IF JSONparses(cur.got[KeyUser])
       THEN /\ data' = [token |-> cur.got[KeyToken],
                        user |-> JSONparse(cur.got[KeyUser])]
            /\ cur' = [cur EXCEPT !.pc = "setLoading"]
       ELSE /\ data' = data
            /\ cur' = [op |-> "loadStorageData", pc |-> "rejected",
                       at |-> "parse", got |-> cur.got]
    /\ UNCHANGED <<loading, headers, storage, load, net, ops>>

\* line 93
LoadSetLoading ==
    /\ cur.op = "loadStorageData"
    /\ cur.pc = "setLoading"
    /\ loading' = FALSE
    /\ cur' = [cur EXCEPT !.pc = "resolved"]
    /\ UNCHANGED <<data, headers, storage, load, net, ops>>

----------------------------------------------------------------------------
(* useAuth, lines 183-196, called by the render of a component.  The       *)
(* components are rendered with the tree, at construction; one that is not  *)
(* under AuthProvider reads the default value of the context.               *)

\* line 42: createContext<AuthContextData>({} as AuthContextData)
AuthContextDefault == Empty

\* line 170: the value the provider hands down (its data properties)
ContextValue == Restrict(data, {"user"}) @@ [loading |-> loading]

Undefined == [undefined |-> TRUE]

\* JavaScript "!value": true of undefined and of no object, the empty one included
Not(value) == value = Undefined

\* lines 183-196
UseAuth(context) ==
    IF Not(context)
    THEN [op |-> "useAuth", pc |-> "rejected", at |-> "throw"]
    ELSE [op |-> "useAuth", pc |-> "resolved", context |-> context]

FirstRender == load = "multiGet" /\ ops = << MultiGet >>

RenderConsumer(inside) ==
    /\ cur = Idle
    /\ FirstRender
    /\ cur' = UseAuth(IF inside THEN ContextValue ELSE AuthContextDefault)
                 @@ [inside |-> inside]
    /\ UNCHANGED <<data, loading, headers, storage, load, net, ops>>

----------------------------------------------------------------------------
(* The promise of the running function settles and the thread is free.     *)
(* Who hears of it: handleSignIn awaits signIn in a try/catch (Profile      *)
(* index.tsx 442-473); Dashboard's onPress={signOut}, Profile's             *)
(* updateUser(...) and the effect's loadStorageData() drop the promise, so  *)
(* their rejections are unhandled.                                          *)

Settled == cur.pc \in {"resolved", "rejected"}

Settle ==
    /\ Settled
    /\ cur' = Idle
    /\ load' = IF cur.op = "loadStorageData"
               THEN (IF cur.pc = "resolved" THEN "done" ELSE "rejected")
               ELSE load
    /\ UNCHANGED <<data, loading, headers, storage, net, ops>>

----------------------------------------------------------------------------
(* The process ends and the application is started again: the state of the *)
(* JavaScript side is that of construction, the requests and the storage   *)
(* operations not yet served are gone, the entries are kept.               *)

Restart ==
    /\ cur = Idle
    /\ data' = Empty
    /\ loading' = TRUE
    /\ headers' = Empty
    /\ load' = "multiGet"
    /\ net' = << >>
    /\ ops' = << MultiGet >>
    /\ UNCHANGED <<storage, cur>>

----------------------------------------------------------------------------

Next ==
    \/ \E cred \in Credentials : SignIn(cred)
    \/ SignOut
    \/ \E user \in Users : UpdateUser(user)
    \/ ProfileSubmit
    \/ \E i \in DOMAIN net, token \in Tokens, user \in Users :
            SessionsResponds(i, token, user)
    \/ \E i \in DOMAIN net : SessionsRejects(i)
    \/ \E i \in DOMAIN net, user \in Users : ProfileResponds(i, user)
    \/ \E i \in DOMAIN net : ProfileRejects(i)
    \/ \E i \in DOMAIN ops : StorageServes(i)
    \/ \E i \in DOMAIN ops : StorageFails(i)
    \/ LoadResumes
    \/ LoadSetHeader
    \/ LoadSetData
    \/ LoadSetLoading
    \/ SignInResumes
    \/ SignInSetHeader
    \/ SignInSetData
    \/ SignOutResumes
    \/ SignOutSetData
    \/ UpdateUserResumes
    \/ \E inside \in BOOLEAN : RenderConsumer(inside)
    \/ Settle
    \/ Restart

Spec == Init /\ [][Next]_vars

----------------------------------------------------------------------------
(* Properties *)

SignInDone == cur.op = "signIn" /\ cur.pc = "resolved"

SignOutDone == cur.op = "signOut" /\ cur.pc = "resolved"

LoadDone == cur.op = "loadStorageData" /\ cur.pc = "resolved"

\* the storage has served no write since the one of the call that is resuming
NoLaterWrite == \A i \in DOMAIN ops : ops[i].op = "multiGet" \/ ops[i].st # "ok"

\* the storage has served no signIn write since then
NoLaterSignInWrite == \A i \in DOMAIN ops : ~(ops[i].op = "multiSet" /\ ops[i].st = "ok")

Paired(entries) == Has(entries, KeyToken) <=> Has(entries, KeyUser)

\* C1: when a signIn call resolves for the response {token, user}, the user the
\* facade exposes is that user and the authorization header is "Bearer " + token,
\* whatever the session was before.
C1_SignInSetsUserAndHeader ==
    SignInDone =>
        /\ Has(data, "user")
        /\ data.user = cur.user
        /\ Has(headers, "authorization")
        /\ headers.authorization = Bearer(cur.token)

C1_Witness ==
    /\ SignInDone
    /\ cur.token = "t2"
    /\ data.user = MkUser("u2", "Ana")
    /\ headers.authorization = "Bearer t2"
    /\ load = "done"

\* C2 as stated: when a signOut call resolves the facade's user is absent and a
\* restore from the entries as they are then finds no session.
C2_SignOutThenRestoreAbsent ==
    SignOutDone => (~Has(data, "user") /\ Restored(storage) = Empty)

\* C2 amended: when a signOut call resolves the facade's user is absent; and when
\* the storage has served no signIn write after the removal, a restore from the
\* entries finds no session.
C2_SignOutAbsent ==
    SignOutDone =>
        /\ ~Has(data, "user")
        /\ NoLaterSignInWrite => Restored(storage) = Empty

C2_Witness ==
    /\ SignOutDone
    /\ Has(headers, "authorization")
    /\ data = Empty
    /\ storage = Empty

\* C3 as stated: when a signIn call resolves for {token, user}, a restore from the
\* entries as they are then gives the credential {token, user}; and a restore that
\* found both entries leaves in memory what it parsed from them.
C3_RoundTrip ==
    /\ SignInDone => Restored(storage) = [token |-> cur.token, user |-> cur.user]
    /\ (LoadDone /\ BothStored(cur.got)) => data = Restored(cur.got)

\* C3 amended: the same, for a signIn after whose write the storage has served no
\* other write.
C3_RoundTripUndisturbed ==
    /\ (SignInDone /\ NoLaterWrite) =>
            Restored(storage) = [token |-> cur.token, user |-> cur.user]
    /\ (LoadDone /\ BothStored(cur.got)) => data = Restored(cur.got)

\* a restored session that a signIn of an earlier run of the process wrote
C3_Witness ==
    /\ LoadDone
    /\ data = [token |-> "t2", user |-> MkUser("u1", "Bia")]

\* C4: the credential in memory never has exactly one of token and user.
C4_TokenAndUserTogether == Has(data, "token") <=> Has(data, "user")

\* C5: the two entries are written and removed together: no step turns entries that
\* are both there or both missing into entries of which one is missing.
C5_EntriesTogether == [][Paired(storage) => Paired(storage')]_vars

\* C6: a restore that read a user entry that does not parse still completes: it
\* ends without an error, with loading false and no user.
C6_MalformedUserCompletes ==
    ( /\ cur.op = "loadStorageData"
      /\ Settled
      /\ Has(cur, "got")
      /\ BothStored(cur.got)
      /\ ~JSONparses(cur.got[KeyUser]) )
    => (cur.pc = "resolved" /\ ~loading /\ ~Has(data, "user"))

\* C7: a restore that found at most one of the two entries changes neither the
\* credential in memory nor the authorization header.
C7_PartialRestoreIsAbsent ==
    [][ ( /\ cur.op = "loadStorageData"
          /\ Has(cur, "got")
          /\ ~(Has(cur.got, KeyToken) /\ Has(cur.got, KeyUser)) )
        => (data' = data /\ headers' = headers) ]_vars

C7_Witness ==
    /\ LoadDone
    /\ Has(cur.got, KeyToken)
    /\ ~Has(cur.got, KeyUser)
    /\ data = Empty
    /\ headers = Empty
    /\ ~loading

\* C8: loading is true when the process starts, and within one run of the process
\* a false loading flag never becomes true again.
C8_LoadingNeverReturns ==
    /\ loading = TRUE
    /\ [][ /\ Restart => loading'
           /\ (~loading /\ ~Restart) => ~loading' ]_vars

C8_Witness == ~loading /\ SignInDone

\* C9: within one signIn call the write is served before the header is set, the
\* header is set before the credential in memory, and the credential before the
\* call resolves; signIn changes the header and the credential nowhere else.
C9_SignInOrder ==
    [][ /\ ( /\ cur'.op = "signIn"
             /\ cur'.pc \in {"setHeader", "setData", "resolved"}
             /\ NoLaterWrite' )
           => storage' = (KeyToken :> cur'.token) @@ (KeyUser :> JSONstringify(cur'.user))
        /\ (headers' # headers /\ ~Restart /\ cur.op # "loadStorageData")
           => (cur.op = "signIn" /\ cur.pc = "setHeader" /\ data' = data)
        /\ (data' # data /\ cur.op = "signIn")
           => ( /\ cur.pc = "setData"
                /\ headers = [authorization |-> Bearer(cur.token)]
                /\ cur'.pc # "resolved" \/ data' = [token |-> cur.token, user |-> cur.user] )
        /\ (cur'.op = "signIn" /\ cur'.pc = "resolved")
           => ( /\ cur.pc = "setData"
                /\ data' = [token |-> cur'.token, user |-> cur'.user] )
      ]_vars

\* the write has been served; the header and the credential are still the old ones
C9_Witness ==
    /\ cur.op = "signIn"
    /\ cur.pc = "setHeader"
    /\ storage = (KeyToken :> "t2") @@ (KeyUser :> JSONstringify(cur.user))
    /\ headers = [authorization |-> "Bearer t1"]
    /\ cur.token = "t2"
    /\ Has(data, "token")
    /\ data.token = "t1"

PostRejected(c) == c.op = "signIn" /\ c.pc = "rejected" /\ c.at = "post"

\* C10: when the login request of a signIn fails, the call rejects; the step that
\* rejects it and the step that hands the rejection to the caller change neither
\* the entries, the header nor the credential, issue no storage operation and no
\* new request, and leave the rendered navigator as it was.
C10_LoginFailureChangesNothing ==
    [][ /\ ( /\ ~Restart
             /\ ops' = ops
             /\ \E i \in DOMAIN net : net[i].req = "sessions" /\ net' = Remove(net, i) )
           => PostRejected(cur')
        /\ (PostRejected(cur') \/ PostRejected(cur))
           => ( /\ data' = data
                /\ headers' = headers
                /\ storage' = storage
                /\ ops' = ops
                /\ Len(net') <= Len(net)
                /\ Routes' = Routes )
      ]_vars

\* a login that failed while a session was active
C10_Witness ==
    /\ PostRejected(cur)
    /\ Has(data, "user")
    /\ Has(headers, "authorization")
    /\ Routes = "AppRoutes"

WriteRejected(c) == c.op = "signIn" /\ c.pc = "rejected" /\ c.at = "multiSet"

\* C11: when the write of a signIn fails, the call rejects instead of going on to
\* the header; the step that rejects it and the step that hands the rejection to
\* the caller change neither the header nor the credential, so a session that was
\* active is still the current one and the same navigator is rendered.
C11_PersistFailureChangesNothing ==
    [][ /\ ( /\ cur = Idle
             /\ ops # << >>
             /\ ops[1].op = "multiSet"
             /\ ops[1].st = "error"
             /\ ops' = Tail(ops) )
           => WriteRejected(cur')
        /\ (WriteRejected(cur') \/ WriteRejected(cur))
           => ( /\ data' = data
                /\ headers' = headers
                /\ storage' = storage
                /\ Routes' = Routes )
      ]_vars

\* a signIn for another token whose write failed while a session was active
C11_Witness ==
    /\ WriteRejected(cur)
    /\ Has(data, "user")
    /\ Has(data, "token")
    /\ data.token = "t1"
    /\ headers = [authorization |-> Bearer("t1")]
    /\ Routes = "AppRoutes"

RemoveRejected(c) == c.op = "signOut" /\ c.pc = "rejected" /\ c.at = "multiRemove"

\* C12: when the removal of a signOut fails, the call rejects instead of going on
\* to clear the credential; the step that rejects it and the step that hands the
\* rejection to the caller leave the credential, the header and the entries as
\* they were, so the user stays signed in.
C12_RemoveFailureKeepsSession ==
    [][ /\ ( /\ cur = Idle
             /\ ops # << >>
             /\ ops[1].op = "multiRemove"
             /\ ops[1].st = "error"
             /\ ops' = Tail(ops) )
           => RemoveRejected(cur')
        /\ (RemoveRejected(cur') \/ RemoveRejected(cur))
           => ( /\ data' = data
                /\ headers' = headers
                /\ storage' = storage
                /\ Routes' = Routes )
      ]_vars

\* a signOut whose removal failed: the session and its entries are still there
C12_Witness ==
    /\ RemoveRejected(cur)
    /\ Has(data, "user")
    /\ Has(data, "token")
    /\ Has(storage, KeyToken)
    /\ Has(storage, KeyUser)
    /\ Routes = "AppRoutes"

NoEntries(entries) == ~Has(entries, KeyToken) /\ ~Has(entries, KeyUser)

BothEntries(entries) == Has(entries, KeyToken) /\ Has(entries, KeyUser)

\* C13: signOut does the same whether a session exists or not. The removal it
\* issues, once served, leaves neither entry and changes nothing when there was
\* none; the call then goes on, without failing, to an empty credential, and no
\* step of it touches the header. A second signOut therefore ends in the state
\* the first one left: no credential, no entries, the same header.
C13_SignOutIdempotent ==
    [][ /\ ( \E i \in DOMAIN ops :
                /\ Oldest(i)
                /\ ops[i].op = "multiRemove"
                /\ Len(ops') = Len(ops)
                /\ ops'[i].st = "ok" )
           => ( /\ NoEntries(storage')
                /\ NoEntries(storage) => storage' = storage
                /\ data' = data
                /\ headers' = headers )
        /\ ( /\ cur = Idle
             /\ ops # << >>
             /\ ops[1].op = "multiRemove"
             /\ ops[1].st = "ok"
             /\ ops' = Tail(ops) )
           => (cur'.op = "signOut" /\ cur'.pc = "setData")
        /\ (cur.op = "signOut" /\ cur.pc = "setData")
           => ( /\ data' = Empty
                /\ headers' = headers
                /\ storage' = storage
                /\ cur'.op = "signOut"
                /\ cur'.pc = "resolved" )
      ]_vars

\* two signOut calls in a row: the first has completed and the removal of the
\* second has been served with nothing left to remove
C13_Witness ==
    /\ SignOutDone
    /\ data = Empty
    /\ NoEntries(storage)
    /\ Len(ops) = 1
    /\ ops[1].op = "multiRemove"
    /\ ops[1].st = "ok"
    /\ Has(headers, "authorization")

\* the step is the body of an updateUser call: it issues the setItem
UpdatesUser == Len(ops') = Len(ops) + 1 /\ ops'[Len(ops')].op = "setItem"

\* C14: an updateUser call made while a credential with a token is current
\* leaves that token in place and replaces the user by the one it was given.
C14_UpdateUserKeepsToken ==
    [][ (UpdatesUser /\ Has(data, "token"))
           => ( /\ Has(data', "token")
                /\ data'.token = data.token
                /\ Has(data', "user")
                /\ JSONstringify(data'.user) = ops'[Len(ops')].value )
      ]_vars

\* C15: a component that calls useAuth without an AuthProvider above it gets an
\* error from the call, not a value.
C15_UseAuthOutsideProviderThrows ==
    (cur.op = "useAuth" /\ ~cur.inside) => cur.pc = "rejected"

\* C16: a header that is set stays set for the life of the process, and no step
\* of signOut changes it; so when a signOut completes the credential is absent
\* and the header is the one the session had.
C16_HeaderNeverUnset ==
    [][ ~Restart
           => ( /\ Has(headers, "authorization") => Has(headers', "authorization")
                /\ (cur.op = "signOut" \/ cur'.op = "signOut") => headers' = headers
                /\ (Len(ops') = Len(ops) + 1 /\ ops'[Len(ops')].op = "multiRemove")
                      => headers' = headers )
      ]_vars

\* signIn with token t2, then signOut: no user, and the header of t2
C16_Witness ==
    /\ SignOutDone
    /\ data = Empty
    /\ Routes = "AuthRoutes"
    /\ headers = [authorization |-> Bearer("t2")]

\* C17: a credential, token and user, comes into existence only by the setData
\* of a signIn or of the restore; in particular, once a signOut has emptied the
\* credential no other step, the handler of an earlier profile request
\* included, puts one back.
C17_UserOnlyBySignInOrRestore ==
    [][ (~Has(data, "user") /\ Has(data', "user") /\ Has(data', "token"))
           => ( /\ cur.op \in {"signIn", "loadStorageData"}
                /\ cur.pc = "setData" )
      ]_vars

\* C18: while no token is current, no updateUser call gets as far as replacing
\* the user or issuing the write of the user entry.
C18_NoSessionUpdateRejected ==
    [][ ~Has(data, "token") => ~UpdatesUser ]_vars

\* C19: the write updateUser issues carries the user entry alone; serving it
\* sets that entry and leaves the token entry as it was, present with the same
\* value or absent, and no other step of updateUser touches the entries.
C19_UpdateUserWritesUserEntryOnly ==
    [][ /\ ( \E i \in DOMAIN ops :
                /\ Oldest(i)
                /\ ops[i].op = "setItem"
                /\ Len(ops') = Len(ops)
                /\ ops'[i].st = "ok" )
           => ( /\ Restrict(storage', {KeyToken}) = Restrict(storage, {KeyToken})
                /\ DOMAIN storage' = DOMAIN storage \cup {KeyUser}
                /\ \E i \in DOMAIN ops : Oldest(i) /\ storage'[KeyUser] = ops[i].value )
        /\ UpdatesUser
           => ( /\ storage' = storage
                /\ DOMAIN ops'[Len(ops')] = {"op", "st", "value"} )
        /\ (cur.op = "updateUser" \/ cur'.op = "updateUser") => storage' = storage
      ]_vars

\* the write of an updateUser served during the session of token t1
C19_Witness ==
    /\ Len(ops) = 1
    /\ ops[1].op = "setItem"
    /\ ops[1].st = "ok"
    /\ ops[1].value = JSONstringify(MkUser("u1", "Bia"))
    /\ storage = (KeyToken :> "t1") @@ (KeyUser :> ops[1].value)
    /\ Has(data, "token")
    /\ data.token = "t1"

\* loadStorageData has ended, by returning or by throwing, after the read completed
LoadEnded(c) ==
    /\ c.op = "loadStorageData"
    /\ c.pc \in {"resolved", "rejected"}
    /\ Has(c, "got")

\* C20: within one process, loading changes only from true to false and only by
\* the last statement of loadStorageData; and whenever loadStorageData has ended
\* after the read completed, whatever entries the read found, loading is false.
C20_LoadingClearsOnce ==
    [][ ~Restart
           => ( /\ loading' # loading
                   => (loading /\ cur.op = "loadStorageData" /\ cur.pc = "setLoading")
                /\ LoadEnded(cur') => ~loading' )
      ]_vars

RouteGate ==
    /\ loading => Routes = "ActivityIndicator"
    /\ ~loading => ( /\ Routes = "AppRoutes" <=> Has(data, "user")
                     /\ Routes = "AuthRoutes" <=> ~Has(data, "user") )

\* the step sends a request or issues a write or a removal: a signIn, signOut
\* or updateUser has been triggered or goes on
Triggered ==
    \/ Len(net') > Len(net)
    \/ /\ Len(ops') > Len(ops)
       /\ ops'[Len(ops')].op \in {"multiSet", "multiRemove", "setItem"}

\* C21: while loading is true the indicator alone is rendered, and no step
\* triggers a signIn, signOut or updateUser; once loading is false the
\* authenticated screens are rendered exactly when a user is present and the
\* sign-in screens exactly when none is.
C21_RouteGating ==
    [][ /\ RouteGate
        /\ RouteGate'
        /\ loading => ~Triggered
      ]_vars

\* the restore has put the user in place and loading is still true: the
\* indicator is rendered, not the authenticated screens
C21_Witness ==
    /\ loading
    /\ Has(data, "user")
    /\ Routes = "ActivityIndicator"
    /\ net = << >>

CredentialPresent == Has(data, "token") /\ Has(data, "user")

\* C22: an updateUser call made while a credential is present leaves a user
\* with the id the user of that credential had.
C22_UpdateUserKeepsId ==
    [][ (UpdatesUser /\ CredentialPresent)
           => ( /\ Has(data', "user")
                /\ data'.user.id = data.user.id )
      ]_vars

\* C23: whenever the thread is between two callbacks and a credential is
\* present, the authorization header is "Bearer " followed by the token of
\* that credential.
C23_HeaderCoherence ==
    (cur = Idle /\ CredentialPresent)
        => ( /\ Has(headers, "authorization")
             /\ headers.authorization = Bearer(data.token) )

\* the restore has completed and nothing is in flight: no request, no storage
\* operation, no callback
AtRest ==
    /\ load = "done"
    /\ cur = Idle
    /\ ops = << >>
    /\ net = << >>

\* C24: at rest a credential is present exactly when both entries are stored,
\* and then the stored token and user are those of the credential.
C24_MemoryAndStorageAgree ==
    AtRest
        => ( /\ CredentialPresent <=> BothEntries(storage)
             /\ CredentialPresent
                   => ( /\ storage[KeyToken] = data.token
                        /\ storage[KeyUser] = JSONstringify(data.user) ) )

====
